---- MODULE Spec2Model ----
(***************************************************************************)
(* Model of MBTilesOffline (src/index.ts, lines 1-231): start() and its    *)
(* tile workers, downloadTile() with its retry/backoff loop, coverage()    *)
(* with the coordinate transforms, and the SQLite store (tables metadata   *)
(* and tiles).                                                             *)
(*                                                                         *)
(* JavaScript runs each worker segment between two awaits atomically, so   *)
(* one action is one such segment: the dispatch of a tile by the pool up   *)
(* to the first `await fetch`, the arrival of a response up to the next    *)
(* await or the worker's return, and the end of a backoff sleep up to the  *)
(* next `await fetch`.                                                     *)
(***************************************************************************)
EXTENDS Integers, Sequences, FiniteSets, Bags, TLC

\* ------------------------------------------------------------ bounds
\* Number of runs of start() against the same store file.
MaxRuns == 2
\* Largest explicit `concurrency` option (0 stands for "not given").
MaxConcurrency == 2
\* Number of distinct response bodies the endpoint can send.
NumBodies == 2

\* ------------------------------------------------- program constants
MAX_RETRIES == 4
INITIAL_DELAY_MS == 250
DEFAULT_CONCURRENCY == 10

\* ------------------------------------------------------------- state
VARIABLES
    bounds,       \* this.bounds: <<minLon, minLat, maxLon, maxLat>>, tenths of a degree
    minzoom,      \* this.minzoom
    maxzoom,      \* this.maxzoom
    concurrency,  \* this.concurrency
    script,       \* the endpoint: <<>> (answers freely) or the answer to each attempt
    phase,        \* "idle" | "pool" | "closed": where start() is
    runs,         \* how many times start() has been called
    zoom,         \* start()'s loop variable of the dispatch loop
    idx,          \* position of the pool in coverage(zoom, bounds)
    totals,       \* values carried by the 'total' events of this run
    progress,     \* start()'s local counter `progress`
    progressLog,  \* values carried by the 'progress' events of this run
    errors,       \* number of 'error' events emitted in this run
    fetched,      \* the tiles downloadTile was called for in this run
    dispatched,   \* number of tiles the pool has handed to a worker in this run
    requested,    \* the <<z, x, y>> substituted into the URLs requested in this run
    closes,       \* number of db.close() calls of this run
    tiles,        \* table tiles: a bag of rows
    metadata,     \* table metadata: a bag of rows
    dbOpen,       \* the DatabaseSync handle is open
    atStart,      \* table tiles as it was when this run started
    pc,           \* per tile: "queued" | "fetching" | "sleeping" | "done" | "released"
                  \* (the pool of its zoom has drained: the worker's frame is gone
                  \* and the per-tile records below are dropped)
    attempt,      \* per tile: downloadTile's loop variable (0 before the call)
    resps,        \* per tile: the responses its GET attempts received
    sleeps,       \* per tile: the backoff delays slept, in order
    progEv,       \* per tile: number of 'progress' events emitted by its worker
    errEv,        \* per tile: number of 'error' events emitted by its worker
    outcome,      \* per tile: how the worker left the fetch: "none" | "hit" (row already
                  \* stored, no fetch) | "bytes" | "null" | "threw" (downloadTile's result)
    write         \* per tile: stmt.run of its worker: "none" | "ok" | "threw"

vars == <<bounds, minzoom, maxzoom, concurrency, script, phase, runs, zoom, idx,
          totals, progress, progressLog, errors, fetched, dispatched, requested,
          closes, tiles, metadata, dbOpen, atStart,
          pc, attempt, resps, sleeps, progEv, errEv, outcome, write>>

cfgVars == <<bounds, minzoom, maxzoom, concurrency, script>>

\* ------------------------------------------------ coordinate transform
\* floor(((lon + 180) / 360) * 2^zoom), lon in tenths of a degree.
lonToTileX(lon, z) == ((lon + 1800) * (2 ^ z)) \div 3600

\* floor(1024 * (1 - ln(tan(lat) + sec(lat)) / pi) / 2) for the latitudes the
\* model uses (tenths of a degree); the Web-Mercator row fraction in 1/1024.
MercatorY1024(lat) ==
    CASE lat = 517  -> 339
      [] lat = 513  -> 341
      [] lat = 100  -> 483
      [] lat = 0    -> 512
      [] lat = -100 -> 540

\* floor(fraction * 2^zoom); exact for zoom <= 10 since floor(f * 2^z) =
\* floor(floor(f * 1024) / 2^(10 - z)).
latToTileY(lat, z) == (MercatorY1024(lat) * (2 ^ z)) \div 1024

\* The zoom levels a configuration may name (both orders of minzoom and
\* maxzoom occur); every box below covers one tile at zoom 0 and two at zoom 1.
Zooms == {0, 1}

\* The bounding boxes a configuration may name: London (spec scenario A,
\* two columns from zoom 1 on) and a box across the equator (two rows).
BBoxes == { <<-5, 513, 3, 517>>, <<100, -100, 200, 100>> }

\* coverage(zoom, bounds): the generator's tiles, x outer loop, y inner loop.
coverage(z, b) ==
    LET startX == lonToTileX(b[1], z)
        endX   == lonToTileX(b[3], z)
        startY == latToTileY(b[4], z)
        endY   == latToTileY(b[2], z)
        nx     == IF endX >= startX THEN endX - startX + 1 ELSE 0
        ny     == IF endY >= startY THEN endY - startY + 1 ELSE 0
    IN  [i \in 1..(nx * ny) |->
            <<z, startX + ((i - 1) \div ny), startY + ((i - 1) % ny)>>]

Range(s) == { s[i] : i \in 1..Len(s) }

\* The tiles of a run: every zoom of the loop `minzoom <= zoom <= maxzoom`.
RunTiles == UNION { Range(coverage(z, bounds)) : z \in minzoom..maxzoom }

\* Mutant: the counting loop stops before maxzoom (zoom < this.maxzoom).
RECURSIVE CountFrom_Exclusive(_)
CountFrom_Exclusive(z) ==
    IF z >= maxzoom THEN 0 ELSE Len(coverage(z, bounds)) + CountFrom_Exclusive(z + 1)

\* The counting loop of start(): total++ for every tile of every zoom.
RECURSIVE CountFrom(_)
CountFrom(z) == IF z > maxzoom THEN 0 ELSE Len(coverage(z, bounds)) + CountFrom(z + 1)
CountTotal == CountFrom(minzoom)

\* 1 << z on 32-bit integers.
Shl1(z) == IF z % 32 = 31 THEN -(2 ^ 31) ELSE 2 ^ (z % 32)

\* Mutant: the store is keyed by the request row.
tmsY_Unflipped(t) == t[3]

\* tmsY = (1 << tile.z) - 1 - tile.y
tmsY(t) == Shl1(t[1]) - 1 - t[3]

\* ------------------------------------------------------------ endpoint
Bodies == 1..NumBodies

\* What one GET attempt can end in: a response with a status (and, when 2xx, a
\* body that was read completely), or no response at all: fetch() or the body
\* read rejects (status 0).
NetErr == [status |-> 0, body |-> 0]
Responses ==
    { [status |-> 200, body |-> b] : b \in Bodies }
      \cup { [status |-> 404, body |-> 0], [status |-> 500, body |-> 0], NetErr }

\* The answers attempt number a can get: any, or the scripted one.
Answers(a) == IF script = <<>> THEN Responses ELSE { script[a] }

\* res.ok
IsOk(r) == r.status >= 200 /\ r.status <= 299

\* ---------------------------------------------------------------- store
NULL == 0

Row(z, x, r, d) == [zoom_level |-> z, tile_column |-> x, tile_row |-> r, tile_data |-> d]

\* SELECT tile_data FROM tiles WHERE zoom_level = ? AND tile_column = ? AND tile_row = ?
checkGet(table, z, x, r) ==
    { row \in BagToSet(table) :
        row.zoom_level = z /\ row.tile_column = x /\ row.tile_row = r }

\* Mutant: the existence check looks the tile up under its request row.
CheckHit_Unflipped(t) ==
    \E row \in checkGet(tiles, t[1], t[2], t[3]) : row.tile_data # NULL

\* Mutant: no existence check before the fetch.
CheckHit_Never(t) == FALSE

\* checkResult && checkResult.tile_data, for the tile's archive key
CheckHit(t) ==
    \E row \in checkGet(tiles, t[1], t[2], tmsY(t)) : row.tile_data # NULL

\* Mutant: a plain INSERT into a table without the unique index.
stmtRun_PlainInsert(table, z, x, r, d) == table (+) SetToBag({ Row(z, x, r, d) })

\* INSERT OR REPLACE INTO tiles ...: the rows that conflict with the new one on
\* the unique index tile_index are deleted, then the new row is inserted.
stmtRun(table, z, x, r, d) ==
    LET keep == { row \in BagToSet(table) :
                    ~(row.zoom_level = z /\ row.tile_column = x /\ row.tile_row = r) }
    IN  [row \in keep |-> table[row]] (+) SetToBag({ Row(z, x, r, d) })

\* The seven INSERT INTO metadata statements of start().
MetadataRows ==
    { [name |-> "name", value |-> "Default Tileset"],
      [name |-> "version", value |-> "1.0.0"],
      [name |-> "description", value |-> ""],
      [name |-> "format", value |-> "png"],
      [name |-> "minzoom", value |-> minzoom],
      [name |-> "maxzoom", value |-> maxzoom],
      [name |-> "bounds", value |-> bounds] }

insertMetadata(table) == table (+) SetToBag(MetadataRows)

\* ----------------------------------------------------------- the pool
\* Tiles whose worker has started and not returned.
Active == { t \in DOMAIN pc : pc[t] \in {"fetching", "sleeping"} }

\* Mutant: the limit is tested with > instead of >=.
HasReachedConcurrencyLimit_OffByOne == Cardinality(Active) > concurrency

\* PromisePool.withConcurrency(this.concurrency): no task is started while
\* `concurrency` tasks are running.
HasReachedConcurrencyLimit == Cardinality(Active) >= concurrency

\* this.concurrency = options.concurrency || 10
Concurrency(option) == IF option = 0 THEN DEFAULT_CONCURRENCY ELSE option

\* --------------------------------------------------------- downloadTile
\* this.url with {z}, {x}, {y} replaced by tile.z, tile.x, tile.y: the URL is
\* kept as the triple put into it.
requestUrl(t) == <<t[1], t[2], t[3]>>

\* Mutant: the exponent is the attempt number.
Delay_OffByOne(a) == INITIAL_DELAY_MS * (2 ^ a)

\* INITIAL_DELAY_MS * Math.pow(2, attempt - 1)
Delay(a) == INITIAL_DELAY_MS * (2 ^ (a - 1))

\* if (attempt === MAX_RETRIES) break;
IsLastAttempt(a) == a = MAX_RETRIES

\* Mutant: 404 is not told apart from the other statuses.
IsNotFound_Never(r) == FALSE

\* if (res.status === 404) return null;
IsNotFound(r) == r.status = 404

\* The catch clause of downloadTile logs `error.message`, and no `error` is in
\* scope (the caught value is `err`): evaluating it throws a ReferenceError out
\* of the catch clause.
CatchClauseThrows == TRUE

\* Mutant: `progress++`, whose value is the old counter.
PostIncrement(p) == p

\* The value of `++progress`.
PreIncrement(p) == p + 1

\* Mutant: start() never announces the total.
EmitTotal_Dropped(log, n) == log

\* this.emit('total', total)
EmitTotal(log, n) == Append(log, n)

\* ------------------------------------------------------------- actions
Fresh(v) == [t \in RunTiles |-> v]

\* The store file start() opens may exist already. Besides the new file, the
\* model starts from a file another tool has prepared with a row for each tile
\* of the run and no data in it (tile_data NULL): the case the second conjunct
\* of the existence check of line 133 is there for. Rows with data come from
\* earlier runs.
InitialStores ==
    { EmptyBag, SetToBag({ Row(t[1], t[2], (2 ^ t[1]) - 1 - t[3], NULL) : t \in RunTiles }) }

Init ==
    /\ bounds \in BBoxes
    /\ minzoom \in Zooms
    /\ maxzoom \in Zooms
    /\ concurrency \in { Concurrency(o) : o \in 0..MaxConcurrency }
    /\ script = <<>>
    /\ phase = "idle"
    /\ runs = 0
    /\ zoom = 0
    /\ idx = 1
    /\ totals = <<>>
    /\ progress = 0
    /\ progressLog = <<>>
    /\ errors = 0
    /\ fetched = {}
    /\ dispatched = 0
    /\ requested = {}
    /\ closes = 0
    /\ tiles \in InitialStores
    /\ metadata = EmptyBag
    /\ dbOpen = FALSE
    /\ atStart = tiles
    /\ pc = Fresh("queued")
    /\ attempt = Fresh(0)
    /\ resps = Fresh(<<>>)
    /\ sleeps = Fresh(<<>>)
    /\ progEv = Fresh(0)
    /\ errEv = Fresh(0)
    /\ outcome = Fresh("none")
    /\ write = Fresh("none")

\* start(), lines 64-116: open the store, count and announce the total, create
\* the tables, insert the metadata rows, prepare the statements. The one await
\* of these lines (line 76) waits for nothing: no worker exists yet.
Start ==
    /\ phase \in {"idle", "closed"}
    /\ runs < MaxRuns
    /\ runs' = runs + 1
    /\ dbOpen' = TRUE
    /\ totals' = EmitTotal(<<>>, CountTotal)
    /\ progress' = 0
    /\ progressLog' = <<>>
    /\ errors' = 0
    /\ fetched' = {}
    /\ dispatched' = 0
    /\ requested' = {}
    /\ closes' = 0
    /\ metadata' = insertMetadata(metadata)
    /\ atStart' = tiles
    /\ phase' = "pool"
    /\ zoom' = minzoom
    /\ idx' = 1
    /\ pc' = Fresh("queued")
    /\ attempt' = Fresh(0)
    /\ resps' = Fresh(<<>>)
    /\ sleeps' = Fresh(<<>>)
    /\ progEv' = Fresh(0)
    /\ errEv' = Fresh(0)
    /\ outcome' = Fresh("none")
    /\ write' = Fresh("none")
    /\ UNCHANGED <<cfgVars, tiles>>

\* The end of a worker: what it leaves behind (oc, wr), the table, and whether
\* it emitted 'progress' (with ++progress) and 'error'.
Finish(t, oc, wr, table, prog, err) ==
    /\ pc' = [pc EXCEPT ![t] = "done"]
    /\ outcome' = [outcome EXCEPT ![t] = oc]
    /\ write' = [write EXCEPT ![t] = wr]
    /\ tiles' = table
    /\ progress' = IF prog THEN progress + 1 ELSE progress
    /\ progressLog' = IF prog THEN Append(progressLog, PreIncrement(progress))
                      ELSE progressLog
    /\ progEv' = [progEv EXCEPT ![t] = IF prog THEN @ + 1 ELSE @]
    /\ errEv' = [errEv EXCEPT ![t] = IF err THEN @ + 1 ELSE @]
    /\ errors' = IF err THEN errors + 1 ELSE errors

\* lines 133-136: the row is there, count it and return.
WorkerHit(t) == Finish(t, "hit", "none", tiles, TRUE, FALSE)

\* lines 140-142: bytes came back; stmt.run, then count. A stmt.run that throws
\* lands in the catch of line 147, which logs and returns.
WorkerData(t, d, writeOk) ==
    IF writeOk
    THEN Finish(t, "bytes", "ok", stmtRun(tiles, t[1], t[2], tmsY(t), d), TRUE, FALSE)
    ELSE Finish(t, "bytes", "threw", tiles, FALSE, FALSE)

\* lines 143-146: downloadTile returned null; count, then emit 'error'.
WorkerNull(t) == Finish(t, "null", "none", tiles, TRUE, TRUE)

\* lines 147-149: downloadTile threw; the catch logs and returns.
WorkerCatch(t) == Finish(t, "threw", "none", tiles, FALSE, FALSE)

\* The pool starts the worker of the next tile of the zoom level: lines
\* 129-138, and downloadTile up to its first `await fetch(url)`.
Dispatch ==
    /\ phase = "pool"
    /\ zoom <= maxzoom
    /\ idx <= Len(coverage(zoom, bounds))
    /\ ~HasReachedConcurrencyLimit
    /\ idx' = idx + 1
    /\ dispatched' = dispatched + 1
    /\ LET t == coverage(zoom, bounds)[idx] IN
         IF CheckHit(t)
         THEN /\ WorkerHit(t)
              /\ UNCHANGED <<attempt, resps, sleeps, fetched, requested>>
         ELSE /\ pc' = [pc EXCEPT ![t] = "fetching"]
              /\ attempt' = [attempt EXCEPT ![t] = 1]
              /\ fetched' = fetched \cup {t}
              /\ requested' = requested \cup {requestUrl(t)}
              /\ UNCHANGED <<resps, sleeps, outcome, write, tiles, progress,
                             progressLog, progEv, errEv, errors>>
    /\ UNCHANGED <<cfgVars, phase, runs, zoom, totals, metadata, dbOpen, atStart, closes>>

\* lines 173-179, after an attempt that neither returned nor threw: give up
\* after the last attempt, else sleep the backoff delay.
AfterAttempt(t) ==
    IF IsLastAttempt(attempt[t])
    THEN /\ WorkerNull(t)
         /\ UNCHANGED sleeps
    ELSE /\ pc' = [pc EXCEPT ![t] = "sleeping"]
         /\ sleeps' = [sleeps EXCEPT ![t] = Append(@, Delay(attempt[t]))]
         /\ UNCHANGED <<outcome, write, tiles, progress, progressLog, progEv, errEv,
                        errors>>

runVars == <<cfgVars, phase, runs, zoom, idx, totals, metadata, dbOpen, atStart,
             dispatched, requested, closes>>

\* line 163: a 2xx response whose body was read; the worker stores it.
RespondOk(t) ==
    /\ pc[t] = "fetching"
    /\ \E r \in Answers(attempt[t]), writeOk \in BOOLEAN :
         /\ IsOk(r)
         /\ resps' = [resps EXCEPT ![t] = Append(@, r)]
         /\ WorkerData(t, r.body, writeOk)
    /\ UNCHANGED <<runVars, attempt, sleeps, fetched>>

\* lines 165-168: 404, no retry.
RespondNotFound(t) ==
    /\ pc[t] = "fetching"
    /\ \E r \in Answers(attempt[t]) :
         /\ r # NetErr /\ ~IsOk(r) /\ IsNotFound(r)
         /\ resps' = [resps EXCEPT ![t] = Append(@, r)]
         /\ WorkerNull(t)
    /\ UNCHANGED <<runVars, attempt, sleeps, fetched>>

\* Any other status: the try block ends without returning.
RespondStatus(t) ==
    /\ pc[t] = "fetching"
    /\ \E r \in Answers(attempt[t]) :
         /\ r # NetErr /\ ~IsOk(r) /\ ~IsNotFound(r)
         /\ resps' = [resps EXCEPT ![t] = Append(@, r)]
         /\ AfterAttempt(t)
    /\ UNCHANGED <<runVars, attempt, fetched>>

\* lines 169-171: fetch (or the body read) rejected; the catch clause runs.
RespondError(t) ==
    /\ pc[t] = "fetching"
    /\ NetErr \in Answers(attempt[t])
    /\ resps' = [resps EXCEPT ![t] = Append(@, NetErr)]
    /\ IF CatchClauseThrows
       THEN WorkerCatch(t) /\ UNCHANGED sleeps
       ELSE AfterAttempt(t)
    /\ UNCHANGED <<runVars, attempt, fetched>>

\* The backoff sleep ends: attempt++, and the loop goes on to the next fetch
\* (or, were the counter exhausted, to `return null` of line 182).
Wake(t) ==
    /\ pc[t] = "sleeping"
    /\ attempt' = [attempt EXCEPT ![t] = @ + 1]
    /\ IF attempt[t] + 1 <= MAX_RETRIES
       THEN /\ pc' = [pc EXCEPT ![t] = "fetching"]
            /\ UNCHANGED <<outcome, write, tiles, progress, progressLog, progEv, errEv,
                           errors>>
       ELSE WorkerNull(t)
    /\ UNCHANGED <<runVars, resps, sleeps, fetched>>

tileVars == <<pc, attempt, resps, sleeps, progEv, errEv, outcome, write>>

\* The per-tile record f with the records of the finished workers of the
\* drained zoom level dropped.
Release(f, v) ==
    [t \in RunTiles |-> IF t[1] = zoom /\ pc[t] = "done" THEN v ELSE f[t]]

\* Mutant: the pool is not awaited: the loop goes on once every tile of the
\* zoom level has been handed out.
PoolIsDrained_NotAwaited == idx > Len(coverage(zoom, bounds))

\* await PromisePool...process(...): resolves when every tile of the zoom
\* level has been handed to a worker and every worker has returned.
PoolIsDrained == idx > Len(coverage(zoom, bounds)) /\ Active = {}

\* The pool of one zoom level has drained: `await ...process()` returns and the
\* loop of line 121 goes to the next zoom.
PoolDrained ==
    /\ phase = "pool"
    /\ zoom <= maxzoom
    /\ PoolIsDrained
    /\ zoom' = zoom + 1
    /\ idx' = 1
    /\ pc' = Release(pc, "released")
    /\ attempt' = Release(attempt, 0)
    /\ resps' = Release(resps, <<>>)
    /\ sleeps' = Release(sleeps, <<>>)
    /\ progEv' = Release(progEv, 0)
    /\ errEv' = Release(errEv, 0)
    /\ outcome' = Release(outcome, "none")
    /\ write' = Release(write, "none")
    /\ UNCHANGED <<cfgVars, phase, runs, totals, metadata, dbOpen, atStart,
                   tiles, progress, progressLog, errors, fetched, dispatched,
                   requested, closes>>

\* line 153: db.close().
Close ==
    /\ phase = "pool"
    /\ zoom > maxzoom
    /\ dbOpen' = FALSE
    /\ closes' = closes + 1
    /\ phase' = "closed"
    /\ UNCHANGED <<cfgVars, runs, zoom, idx, totals, metadata, atStart, tileVars,
                   tiles, progress, progressLog, errors, fetched, dispatched,
                   requested>>

Next ==
    \/ Start
    \/ Dispatch
    \/ \E t \in RunTiles : RespondOk(t)
    \/ \E t \in RunTiles : RespondNotFound(t)
    \/ \E t \in RunTiles : RespondStatus(t)
    \/ \E t \in RunTiles : RespondError(t)
    \/ \E t \in RunTiles : Wake(t)
    \/ PoolDrained
    \/ Close

Spec == Init /\ [][Next]_vars

\* The same program against a stub endpoint whose answer depends on the attempt
\* number alone (always 500, always 404, k - 1 failures then a success, ...).
Scripts == [1..MAX_RETRIES -> { r \in Responses : r.body \in {0, 1} }]

InitScript ==
    /\ bounds = <<-5, 513, 3, 517>>
    /\ minzoom \in Zooms
    /\ maxzoom \in Zooms
    /\ concurrency = Concurrency(0)
    /\ script \in Scripts
    /\ phase = "idle"
    /\ runs = 0
    /\ zoom = 0
    /\ idx = 1
    /\ totals = <<>>
    /\ progress = 0
    /\ progressLog = <<>>
    /\ errors = 0
    /\ fetched = {}
    /\ dispatched = 0
    /\ requested = {}
    /\ closes = 0
    /\ tiles = EmptyBag
    /\ metadata = EmptyBag
    /\ dbOpen = FALSE
    /\ atStart = EmptyBag
    /\ pc = Fresh("queued")
    /\ attempt = Fresh(0)
    /\ resps = Fresh(<<>>)
    /\ sleeps = Fresh(<<>>)
    /\ progEv = Fresh(0)
    /\ errEv = Fresh(0)
    /\ outcome = Fresh("none")
    /\ write = Fresh("none")

SpecScript == InitScript /\ [][Next]_vars

\* ================================================================ claims
\* The archive key of a tile as the specification states it: row 2^z - 1 - y.
ArchiveRow(t) == (2 ^ t[1]) - 1 - t[3]

RowsOf(table, t) ==
    { row \in BagToSet(table) :
        row.zoom_level = t[1] /\ row.tile_column = t[2] /\ row.tile_row = ArchiveRow(t) }

HasData(table, t) == \E row \in RowsOf(table, t) : row.tile_data # NULL

Last(s) == s[Len(s)]

\* A transient failure of one attempt: a status that is neither 2xx nor 404.
TransientStatus(r) == r # NetErr /\ ~(r.status \in 200..299) /\ r.status # 404

Transient(r) == r = NetErr \/ TransientStatus(r)

InFlight == { t \in RunTiles : pc[t] \in {"fetching", "sleeping"} }

\* C1: at the end of every run (the store closed) the number of 'progress'
\* events emitted equals the value announced by 'total', whatever happened to
\* the single tiles.
C1_ProgressReachesTotal ==
    phase = "closed" => Len(progressLog) = totals[1]

\* C2: a tile whose archive key already has a row with data is never fetched
\* and is counted by exactly one 'progress' event; a run over a fully populated
\* store makes no fetch at all and ends with completed = total.
C2_Resumable ==
    /\ \A t \in RunTiles :
         HasData(atStart, t) =>
           /\ t \notin fetched
           /\ pc[t] \in {"queued", "done", "released"}
           /\ attempt[t] = 0 /\ resps[t] = <<>>
           /\ pc[t] = "done" => (progEv[t] = 1 /\ outcome[t] = "hit")
    /\ (\A t \in RunTiles : HasData(atStart, t)) =>
         /\ fetched = {}
         /\ phase = "closed" => Len(progressLog) = totals[1]

C2_Witness ==
    /\ phase = "closed" /\ runs = 2
    /\ Cardinality(RunTiles) = 3
    /\ \A t \in RunTiles : HasData(atStart, t)
    /\ fetched = {}
    /\ progressLog = <<1, 2, 3>>

\* C3: a tile answered with 404 is counted by a 'progress' event, gets no
\* 'error' event, and stays absent from the store.
C3_NotFoundIsNoError ==
    \A t \in RunTiles :
      (pc[t] = "done" /\ resps[t] # <<>> /\ Last(resps[t]).status = 404) =>
        /\ progEv[t] = 1
        /\ errEv[t] = 0
        /\ ~HasData(tiles, t)

\* C4: a fetch whose every attempt is answered with a non-2xx, non-404 status
\* makes exactly 4 attempts, sleeps 250, 500, 1000 ms between them in that
\* order, does not sleep after the last, and yields no bytes.
C4_ExhaustedBackoff ==
    \A t \in RunTiles :
      (\A i \in 1..Len(resps[t]) : TransientStatus(resps[t][i])) =>
        /\ Len(resps[t]) <= 4
        /\ Len(sleeps[t]) <= 3
        /\ sleeps[t] = SubSeq(<<250, 500, 1000>>, 1, Len(sleeps[t]))
        /\ pc[t] = "sleeping" => Len(sleeps[t]) = Len(resps[t])
        /\ pc[t] = "fetching" => Len(sleeps[t]) = Len(resps[t])
        /\ (pc[t] = "done" /\ resps[t] # <<>>) =>
             /\ Len(resps[t]) = 4
             /\ attempt[t] = 4
             /\ sleeps[t] = <<250, 500, 1000>>
             /\ outcome[t] = "null"

C4_Witness ==
    \E t \in RunTiles :
      /\ pc[t] = "done"
      /\ Len(resps[t]) = 4
      /\ \A i \in 1..4 : resps[t][i].status = 500
      /\ sleeps[t] = <<250, 500, 1000>>
      /\ outcome[t] = "null"

\* C5: an attempt answered with 404 is the last one of its fetch, whatever its
\* number: the fetch has ended, with no attempt and no sleep after it.
C5_NotFoundEndsFetch ==
    \A t \in RunTiles :
      \A i \in 1..Len(resps[t]) :
        resps[t][i].status = 404 =>
          /\ i = Len(resps[t])
          /\ pc[t] = "done"
          /\ attempt[t] = i
          /\ Len(sleeps[t]) = i - 1
          /\ outcome[t] = "null"

C5_Witness ==
    /\ \E t \in RunTiles :
         pc[t] = "done" /\ Len(resps[t]) = 3 /\ resps[t][3].status = 404
    /\ \E t \in RunTiles :
         pc[t] = "done" /\ Len(resps[t]) = 1 /\ resps[t][1].status = 404

\* C6: a transport-level error on an attempt below MAX_RETRIES is followed by
\* the backoff sleep and another attempt, and never leaves downloadTile as an
\* exception.
C6_TransportErrorRetried ==
    \A t \in RunTiles :
      \A i \in 1..Len(resps[t]) :
        (resps[t][i] = NetErr /\ i < MAX_RETRIES) =>
          /\ outcome[t] # "threw"
          /\ Len(sleeps[t]) >= i

\* C7: against an endpoint whose first k - 1 answers are transient failures
\* and whose k-th answer is 2xx, a fetched tile ends after exactly k attempts
\* with the k-th body stored under its archive key, one 'progress' event and no
\* 'error' event (leaving aside a store that refuses the write).
C7_SuccessAfterTransients ==
    script # <<>> =>
      \A t \in RunTiles :
        (pc[t] = "done" /\ outcome[t] # "hit" /\ write[t] # "threw") =>
          \A k \in 1..MAX_RETRIES :
            ((\A i \in 1..(k - 1) : Transient(script[i])) /\ script[k].status = 200) =>
              /\ Len(resps[t]) = k
              /\ outcome[t] = "bytes"
              /\ \E row \in RowsOf(tiles, t) : row.tile_data = script[k].body
              /\ progEv[t] = 1
              /\ errEv[t] = 0

\* C8: a tile whose fetch made all MAX_RETRIES attempts without obtaining bytes
\* gets exactly one 'error' event and no row.
C8_ExhaustedOneError ==
    \A t \in RunTiles :
      (pc[t] = "done" /\ Len(resps[t]) = MAX_RETRIES
         /\ ~(Last(resps[t]).status \in 200..299)) =>
        /\ errEv[t] = 1
        /\ RowsOf(tiles, t) \subseteq RowsOf(atStart, t)

\* C9: the workers started and not yet finished (suspended in a fetch or in a
\* backoff sleep) never outnumber the configured concurrency.
C9_ConcurrencyBound == Cardinality(InFlight) <= concurrency

C9_Witness ==
    /\ concurrency = 1
    /\ phase = "pool" /\ zoom <= maxzoom
    /\ idx <= Len(coverage(zoom, bounds))
    /\ \E t \in RunTiles : pc[t] = "sleeping" /\ Len(sleeps[t]) = 2

\* C10: the values of the 'progress' events of a run are 1, 2, 3, ... in
\* emission order, and never exceed total.
C10_ProgressExact ==
    /\ \A i \in 1..Len(progressLog) : progressLog[i] = i
    /\ totals # <<>> => Len(progressLog) <= totals[1]

\* Two workers of one zoom level finish in the reverse of dispatch order.
C10_Witness ==
    /\ phase = "pool" /\ zoom = 1 /\ minzoom = 0 /\ maxzoom = 1
    /\ Len(coverage(1, bounds)) = 2
    /\ pc[coverage(1, bounds)[1]] = "sleeping"
    /\ pc[coverage(1, bounds)[2]] = "done"
    /\ progEv[coverage(1, bounds)[2]] = 1
    /\ progressLog = <<1, 2>>

\* C11: every run emits 'total' exactly once, before any 'progress' event, any
\* 'error' event and any fetch attempt of the run.
C11_TotalFirstAndOnce ==
    /\ phase \in {"pool", "closed"} => Len(totals) = 1
    /\ (progressLog # <<>> \/ errors > 0 \/ fetched # {}
          \/ \E t \in RunTiles : pc[t] # "queued") => Len(totals) = 1
    /\ Len(totals) <= 1

C11_Witness ==
    /\ phase = "closed" /\ runs = 2
    /\ totals = <<3>>
    /\ Len(progressLog) = 2
    /\ errors = 1
    /\ fetched # {}

\* The rectangle of tiles of a zoom level, as the specification states it.
Rectangle(z) ==
    { <<z, x, y>> : x \in lonToTileX(bounds[1], z)..lonToTileX(bounds[3], z),
                    y \in latToTileY(bounds[4], z)..latToTileY(bounds[2], z) }

\* C12: the value of 'total', counted by the first traversal of the coverage,
\* is the number of tiles the second traversal hands to the workers, and each
\* tile of the rectangle of a zoom level appears exactly once in its coverage.
C12_TotalIsDispatched ==
    /\ totals # <<>> => dispatched <= totals[1]
    /\ phase = "closed" => dispatched = totals[1]
    /\ (phase = "pool" /\ zoom <= maxzoom) =>
         LET cov == coverage(zoom, bounds) IN
           /\ Range(cov) = Rectangle(zoom)
           /\ \A i, j \in 1..Len(cov) : cov[i] = cov[j] => i = j
           /\ \A i \in 1..Len(cov) : (i < idx) <=> (pc[cov[i]] # "queued")

C12_Witness ==
    /\ phase = "closed"
    /\ totals = <<3>>
    /\ dispatched = 3
    /\ Cardinality(Rectangle(1)) = 2

\* C13: the URL of a tile carries its request row y, the existence check and
\* the upsert use the archive row 2^z - 1 - y: every row a run has written is
\* keyed (z, x, 2^z - 1 - y) for a tile (z, x, y) of the coverage that was
\* requested with row y.
C13_FlipOnce ==
    /\ requested = fetched
    /\ \A row \in BagToSet(tiles) \ BagToSet(atStart) :
         \E t \in RunTiles :
           /\ t \in requested
           /\ row.zoom_level = t[1] /\ row.tile_column = t[2]
           /\ row.tile_row = (2 ^ t[1]) - 1 - t[3]
    /\ \A t \in RunTiles :
         /\ write[t] = "ok" =>
              RowsOf(tiles, t) = { Row(t[1], t[2], (2 ^ t[1]) - 1 - t[3], Last(resps[t]).body) }
         /\ outcome[t] = "hit" => HasData(atStart, t)

\* A tile of zoom 1 whose archive row differs from its request row is stored.
C13_Witness ==
    \E t \in RunTiles :
      /\ t[1] = 1
      /\ write[t] = "ok"
      /\ t \in requested
      /\ \E row \in BagToSet(tiles) \ BagToSet(atStart) :
           row.zoom_level = 1 /\ row.tile_column = t[2] /\ row.tile_row # t[3]

\* C14: a run configured with minzoom > maxzoom fails before any work: no
\* metadata row, no dispatch, no 'total', no 'progress', no normal completion.
C14_InvertedZoomsFatal ==
    minzoom > maxzoom =>
      /\ metadata = EmptyBag
      /\ totals = <<>>
      /\ progressLog = <<>>
      /\ dispatched = 0
      /\ phase # "closed"

MetadataNames ==
    {"name", "version", "description", "format", "minzoom", "maxzoom", "bounds"}

\* C15: whatever the number of runs against the store, the metadata table
\* holds exactly one row for each of the seven names.
C15_MetadataOnce ==
    runs >= 1 =>
      \A n \in MetadataNames :
        \E row \in BagToSet(metadata) :
          /\ row.name = n
          /\ CopiesIn(row, metadata) = 1
          /\ \A other \in BagToSet(metadata) : other.name = n => other = row

SameKey(r1, r2) ==
    /\ r1.zoom_level = r2.zoom_level
    /\ r1.tile_column = r2.tile_column
    /\ r1.tile_row = r2.tile_row

\* C16: the tiles table never holds two rows for one (zoom_level, tile_column,
\* tile_row); the data of a row is a whole response body, and the row a worker
\* has upserted holds the body of its successful fetch, also when the key had
\* a row before.
C16_OneRowPerKey ==
    /\ \A row \in BagToSet(tiles) : CopiesIn(row, tiles) = 1
    /\ \A r1, r2 \in BagToSet(tiles) : SameKey(r1, r2) => r1 = r2
    /\ \A row \in BagToSet(tiles) : row.tile_data # NULL => row.tile_data \in Bodies
    /\ \A t \in RunTiles :
         write[t] = "ok" =>
           /\ Last(resps[t]).status \in 200..299
           /\ \A row \in RowsOf(tiles, t) : row.tile_data = Last(resps[t]).body

\* An upsert has replaced the row its key already had.
C16_Witness ==
    \E t \in RunTiles :
      /\ RowsOf(atStart, t) # {}
      /\ write[t] = "ok"
      /\ Cardinality(RowsOf(tiles, t)) = 1
      /\ \A row \in RowsOf(tiles, t) : row.tile_data = 2
      /\ \E u \in RunTiles : u # t /\ write[u] = "ok"

\* C17: a run closes the store once, after the workers of every zoom level
\* have finished; while the store is closed no worker is suspended in a fetch
\* or a sleep, so none can run an existence check or an upsert on it.
C17_CloseAfterWorkers ==
    /\ closes <= 1
    /\ phase = "pool" => (dbOpen /\ closes = 0)
    /\ phase = "closed" =>
         /\ closes = 1
         /\ \A t \in RunTiles : pc[t] = "released"
    /\ ~dbOpen =>
         /\ phase # "pool"
         /\ \A t \in RunTiles : pc[t] \notin {"fetching", "sleeping", "done"}

C17_Witness ==
    /\ phase = "closed" /\ runs = 2
    /\ closes = 1 /\ ~dbOpen
    /\ Cardinality(fetched) = 3
    /\ errors = 1
    /\ Len(progressLog) = 3

\* C18: zoom levels are worked in ascending order with a barrier: while a
\* worker of a zoom level has not finished, every tile of a higher zoom level
\* is still waiting (no existence check, no fetch), and every tile of a lower
\* one has finished.
C18_ZoomBarrier ==
    /\ \A t, u \in RunTiles :
         (t[1] < u[1] /\ pc[u] # "queued") => pc[t] \in {"done", "released"}
    /\ phase = "pool" =>
         \A t \in RunTiles :
           /\ t[1] > zoom => (pc[t] = "queued" /\ t \notin fetched)
           /\ t[1] < zoom => pc[t] = "released"

\* The barrier holds the tiles of zoom 1 back while the tile of zoom 0 is in
\* its last backoff sleep.
C18_Witness ==
    /\ phase = "pool" /\ zoom = 0 /\ maxzoom = 1
    /\ idx > Len(coverage(0, bounds))
    /\ \E t \in RunTiles : t[1] = 0 /\ pc[t] = "sleeping" /\ Len(sleeps[t]) = 3
    /\ \A u \in RunTiles : u[1] = 1 => pc[u] = "queued"

\* C19: a tile whose bytes were fetched but whose upsert failed is reported:
\* its worker emits one 'error' event and one 'progress' event.
C19_WriteFailureReported ==
    \A t \in RunTiles :
      (pc[t] = "done" /\ outcome[t] = "bytes" /\ write[t] = "threw") =>
        (errEv[t] = 1 /\ progEv[t] = 1)

\* C20: every tile row that held data when the run started is in the store
\* unchanged (same key, same bytes, one copy, no second row for its key), and
\* every key that had a row at the start of the run still has one.
C20_StoredRowsKept ==
    /\ \A row \in BagToSet(atStart) :
         row.tile_data # NULL =>
           /\ CopiesIn(row, tiles) = CopiesIn(row, atStart)
           /\ \A other \in BagToSet(tiles) : SameKey(row, other) => other = row
    /\ \A row \in BagToSet(atStart) :
         \E kept \in BagToSet(tiles) : SameKey(row, kept)

\* A second run skips a tile stored by the first one while the endpoint
\* serves other bytes, which the run stores for another tile.
C20_Witness ==
    /\ runs = 2
    /\ \E t, u \in RunTiles :
         /\ t # u
         /\ pc[t] = "done" /\ outcome[t] = "hit"
         /\ \E row \in RowsOf(atStart, t) : row.tile_data = 1
         /\ RowsOf(tiles, t) = RowsOf(atStart, t)
         /\ ~HasData(atStart, u)
         /\ write[u] = "ok"
         /\ \E row \in RowsOf(tiles, u) : row.tile_data = 2

====
